---- MODULE Spec2Model ----
(***************************************************************************)
(* State-machine model of hidebilishow_scanner.py: BilibiliShowScanner     *)
(* (get_project_info, scan_project, scan_range, save_results),             *)
(* get_user_input and the interactive loop of main.                        *)
(*                                                                         *)
(* The program is single-threaded.  Actions are cut at the points where    *)
(* the thread blocks on the outside world: a console read (input), an      *)
(* HTTP request in flight (session.get) and the inter-request delay        *)
(* (time.sleep).  Everything the code does between two such points is one  *)
(* action.                                                                 *)
(***************************************************************************)
EXTENDS Integers, Sequences, FiniteSets, TLC

\* Largest project ID the operator types (the program itself has no limit).
MaxId == 3

-----------------------------------------------------------------------------
(* Python / JSON values.  Every value is a record of the same shape so that *)
(* values of different Python types can be compared.                        *)

PyNone    == [t |-> "none", i |-> 0, s |-> ""]
PyInt(n)  == [t |-> "int",  i |-> n, s |-> ""]
PyStr(x)  == [t |-> "str",  i |-> 0, s |-> x]
\* A key that is not present in a JSON object (dict.get finds nothing).
Absent    == [t |-> "absent", i |-> 0, s |-> ""]

\* dict.get(key, default): the default only replaces a missing key; a key
\* that is present with value null yields None.
DictGet(v, default) == IF v.t = "absent" THEN default ELSE v

\* Text literals of the source (ASCII renderings of the Chinese literals).
GenericError == "cannot get project info"
UnknownName  == "unknown project"

-----------------------------------------------------------------------------
(* What one HTTP GET can bring back.                                        *)
(*   kind = "transport"    session.get raised (DNS, reset, timeout)         *)
(*   kind = "http"         non-2xx status: raise_for_status raised          *)
(*   kind = "undecodable"  body is not JSON: response.json() raised         *)
(*   kind = "nonobject"    body is JSON but not an object (e.g. a list)     *)
(*   kind = "object"       body is a JSON object with code, message, data   *)
(* data.tag is the JSON type of the "data" member.                          *)

NoData == [tag |-> "absent", hide |-> Absent, name |-> Absent]

DataValues ==
    { [tag |-> g, hide |-> Absent, name |-> Absent] : g \in {"absent", "null", "array"} }
    \cup
    { [tag |-> "object", hide |-> h, name |-> n] :
         h \in {Absent, PyNone, PyInt(0), PyInt(1), PyInt(2)},
         n \in {Absent, PyStr("A")} }

Failure(k) == [kind |-> k, code |-> Absent, message |-> Absent, data |-> NoData]

NoResponse == Failure("none")

Responses ==
    { Failure(k) : k \in {"transport", "http", "undecodable", "nonobject"} }
    \cup
    { [kind |-> "object", code |-> c, message |-> m, data |-> NoData] :
         c \in {Absent, PyInt(10002)}, m \in {Absent, PyStr("not found")} }
    \cup
    { [kind |-> "object", code |-> PyInt(0), message |-> Absent, data |-> d] :
         d \in DataValues }

-----------------------------------------------------------------------------
(* get_project_info: the value returned for a response.                     *)
(*   [ok |-> FALSE]  the function returned None                             *)
(*   [ok |-> TRUE, info |-> d]  the function returned data.get('data')      *)
(* console is the line it printed, if any.                                  *)

ReturnedNone == [ok |-> FALSE, info |-> NoData]

get_project_info(r) ==
    IF r.kind \in {"transport", "http", "undecodable", "nonobject"}
    THEN ReturnedNone                          \* the three except clauses
    ELSE IF r.code = PyInt(0)
         THEN IF r.data.tag \in {"absent", "null"}
              THEN ReturnedNone                \* data.get('data') is None
              ELSE [ok |-> TRUE, info |-> r.data]
         ELSE ReturnedNone                     \* application error

\* The line get_project_info prints for a response ("" when it prints none).
console_line(r) ==
    CASE r.kind \in {"transport", "http"} -> "request failed"
      [] r.kind = "undecodable"           -> "JSON decode failed"
      [] r.kind = "nonobject"             -> "unknown error"
      [] r.kind = "object" /\ r.code # PyInt(0) ->
            DictGet(r.message, PyStr("unknown error")).s
      [] OTHER -> ""

-----------------------------------------------------------------------------
(* scan_project.  raised = TRUE: project_info.get raised AttributeError     *)
(* (project_info is neither None nor a dict); no result is returned.        *)

ErrorResult(id) ==
    [id |-> id, hide |-> PyNone, name |-> PyNone,
     status |-> "error", error |-> PyStr(GenericError)]

\* Mutant of HideOf: a missing hide is read as 0, project_info.get('hide', 0).
HideOf_default_zero(info) == DictGet(info.hide, PyInt(0))

HideOf(info) == DictGet(info.hide, PyNone)

NameOf(info) == DictGet(info.name, PyStr(UnknownName))

\* Mutant of IsHidden: the test is "if result['hide']:" (any truthy value).
IsHidden_truthy(result) == result.hide \notin {PyNone, PyInt(0)}

IsHidden(result) == result.hide = PyInt(1)

\* Mutant of scan_project: the error field takes the server's message when
\* the response carries one.
scan_project_server_message(id, r) ==
    LET got == get_project_info(r) IN
    IF ~got.ok
    THEN [raised |-> FALSE,
          result |-> [ErrorResult(id) EXCEPT
                         !.error = DictGet(r.message, PyStr(GenericError))],
          hidden |-> FALSE]
    ELSE IF got.info.tag # "object"
    THEN [raised |-> TRUE, result |-> ErrorResult(id), hidden |-> FALSE]
    ELSE LET result == [id |-> id, hide |-> HideOf(got.info),
                        name |-> NameOf(got.info),
                        status |-> "success", error |-> PyNone]
         IN [raised |-> FALSE, result |-> result, hidden |-> IsHidden(result)]

scan_project(id, r) ==
    LET got == get_project_info(r) IN
    IF ~got.ok
    THEN [raised |-> FALSE, result |-> ErrorResult(id), hidden |-> FALSE]
    ELSE IF got.info.tag # "object"
    THEN [raised |-> TRUE, result |-> ErrorResult(id), hidden |-> FALSE]
    ELSE LET result == [id |-> id, hide |-> HideOf(got.info),
                        name |-> NameOf(got.info),
                        status |-> "success", error |-> PyNone]
         IN [raised |-> FALSE, result |-> result, hidden |-> IsHidden(result)]

-----------------------------------------------------------------------------
(* Console lines are sequences of one-character strings.                    *)

DigitChars == <<"0", "1", "2", "3", "4", "5", "6", "7", "8", "9">>

IsDigit(c) == \E k \in 1..Len(DigitChars) : DigitChars[k] = c

DigitValue(c) == (CHOOSE k \in 1..Len(DigitChars) : DigitChars[k] = c) - 1

\* str.strip(): drop leading and trailing blanks.
RECURSIVE LStrip(_)
LStrip(s) == IF s # <<>> /\ Head(s) = " " THEN LStrip(Tail(s)) ELSE s

RECURSIVE RStrip(_)
RStrip(s) == IF s # <<>> /\ s[Len(s)] = " "
             THEN RStrip(SubSeq(s, 1, Len(s) - 1)) ELSE s

Strip(s) == RStrip(LStrip(s))

\* The letters the prompts may receive, as <<lower, upper>> pairs.
Letters == { <<"y", "Y">>, <<"e", "E">>, <<"s", "S">>, <<"n", "N">>, <<"t", "T">> }

LowerChar(c) == IF \E p \in Letters : p[2] = c
                THEN (CHOOSE p \in Letters : p[2] = c)[1] ELSE c

UpperChar(c) == IF \E p \in Letters : p[1] = c
                THEN (CHOOSE p \in Letters : p[1] = c)[2] ELSE c

Lower(s) == [k \in 1..Len(s) |-> LowerChar(s[k])]

Upper(s) == [k \in 1..Len(s) |-> UpperChar(s[k])]

\* Value of a non-empty sequence of digit characters.
RECURSIVE DigitsValue(_)
DigitsValue(s) == IF s = <<>> THEN 0
                  ELSE 10 * DigitsValue(SubSeq(s, 1, Len(s) - 1))
                       + DigitValue(s[Len(s)])

AllDigits(s) == s # <<>> /\ \A k \in 1..Len(s) : IsDigit(s[k])

\* int(text): blanks around the number are ignored, one sign is allowed,
\* anything else raises ValueError (ok = FALSE).
ParseInt(line) ==
    LET s    == Strip(line)
        neg  == s # <<>> /\ Head(s) = "-"
        body == IF s # <<>> /\ Head(s) \in {"-", "+"} THEN Tail(s) ELSE s
    IN IF AllDigits(body)
       THEN [ok |-> TRUE,
             value |-> IF neg THEN 0 - DigitsValue(body) ELSE DigitsValue(body)]
       ELSE [ok |-> FALSE, value |-> 0]

\* What the operator may type at the two ID prompts.
IdLines ==
    { <<DigitChars[d + 1]>> : d \in 0..MaxId }
    \cup { <<>>, <<"a">>, <<"-", "1">>, <<" ", "2", " ">>, <<"1", ".", "5">> }

\* What the operator may type at the save prompt ("shi" and "baocun" stand
\* for the two Chinese answers the source accepts).
SaveLines ==
    { <<"y">>, <<"Y">>, <<" ", "y", "e", "s", " ">>, <<"shi">>, <<"baocun">>,
      <<"n">>, <<>>, <<"y", "y">> }

YesChoices == { <<"y">>, <<"y", "e", "s">>, <<"shi">>, <<"baocun">> }

\* What the operator may type at the exit prompt.
ExitLines == { <<"t">>, <<"T">>, <<" ", "s">>, <<"S">>, <<"n">>, <<>> }

-----------------------------------------------------------------------------
(* get_user_input: the two validations.                                     *)

ValidStart(p) == p.ok /\ p.value > 0

\* Mutant of ValidEnd: the comparison with start_id is missing.
ValidEnd_unchecked(p, start) == p.ok

ValidEnd(p, start) == p.ok /\ ~(p.value < start)

-----------------------------------------------------------------------------
(* json.dump / json.load.  A scalar is written as a token: null, a number   *)
(* as its decimal digits, a string as its text between quotes.              *)

RECURSIVE NatDigits(_)
NatDigits(n) == IF n < 10 THEN <<DigitChars[n + 1]>>
                ELSE Append(NatDigits(n \div 10), DigitChars[(n % 10) + 1])

IntDigits(n) == IF n < 0 THEN <<"-">> \o NatDigits(0 - n) ELSE NatDigits(n)

JsonNull      == [j |-> "null",   text |-> <<"n", "u", "l", "l">>]
JsonNumber(n) == [j |-> "number", text |-> IntDigits(n)]
JsonString(x) == [j |-> "string", text |-> <<x>>]

DumpValue(v) ==
    CASE v.t = "none" -> JsonNull
      [] v.t = "int"  -> JsonNumber(v.i)
      [] v.t = "str"  -> JsonString(v.s)

LoadValue(tok) ==
    CASE tok.j = "null"   -> PyNone
      [] tok.j = "number" -> PyInt(ParseInt(tok.text).value)
      [] tok.j = "string" -> PyStr(tok.text[1])

DumpResult(o) ==
    [id     |-> JsonNumber(o.id),
     hide   |-> DumpValue(o.hide),
     name   |-> DumpValue(o.name),
     status |-> JsonString(o.status),
     error  |-> DumpValue(o.error)]

LoadResult(d) ==
    [id     |-> LoadValue(d.id).i,
     hide   |-> LoadValue(d.hide),
     name   |-> LoadValue(d.name),
     status |-> LoadValue(d.status).s,
     error  |-> LoadValue(d.error)]

DumpList(list) == [k \in 1..Len(list) |-> DumpResult(list[k])]

LoadList(arr) == [k \in 1..Len(arr) |-> LoadResult(arr[k])]

\* Mutant of results_data: total_scanned counts the successful outcomes.
results_data_successes(results, hidden) ==
    [scan_time       |-> JsonString("now"),
     total_scanned   |-> JsonNumber(Len(SelectSeq(results,
                                        LAMBDA o : o.status = "success"))),
     hidden_count    |-> JsonNumber(Len(hidden)),
     hidden_projects |-> DumpList(hidden),
     all_results     |-> DumpList(results)]

\* results_data of save_results, as written by json.dump.
results_data(results, hidden) ==
    [scan_time       |-> JsonString("now"),
     total_scanned   |-> JsonNumber(Len(results)),
     hidden_count    |-> JsonNumber(Len(hidden)),
     hidden_projects |-> DumpList(hidden),
     all_results     |-> DumpList(results)]

\* The document as a reader gets it back from json.load.
LoadDocument(doc) ==
    [total_scanned   |-> LoadValue(doc.total_scanned).i,
     hidden_count    |-> LoadValue(doc.hidden_count).i,
     hidden_projects |-> LoadList(doc.hidden_projects),
     all_results     |-> LoadList(doc.all_results)]

-----------------------------------------------------------------------------
(* The try/except of main.  An exception raised at control point `at` is    *)
(* caught when `at` lies inside the try block; the exit prompt lies after   *)
(* it.  KeyboardInterrupt has its own clause, every Exception subclass      *)
(* falls into the second one.                                               *)

TryPoints == {"banner", "ask_start", "ask_end", "fetching", "sleeping", "ask_save"}

ExceptionClasses == {"AttributeError", "EOFError"}

\* "try" for a control point inside main's try block, "after_try" otherwise.
Where(at) == IF at \in TryPoints THEN "try" ELSE "after_try"

\* Mutant of Handler: main has only the "except Exception" clause.
Handler_exception_only(where, e) ==
    IF where = "try" /\ e \in ExceptionClasses THEN "ask_exit" ELSE "crashed"

\* The control point main continues at; "crashed": the exception leaves main
\* and the interpreter ends the process with a traceback.
Handler(where, e) ==
    IF where = "try" /\ (e = "KeyboardInterrupt" \/ e \in ExceptionClasses)
    THEN "ask_exit"
    ELSE "crashed"

-----------------------------------------------------------------------------
VARIABLES
    pc,              \* where main's thread is
    start_id,        \* main: start_id (0 before the first input)
    end_id,          \* main: end_id   (0 before the first input)
    project_id,      \* scan_range: loop variable
    scan_results,    \* scanner.scan_results
    hidden_projects, \* scanner.hidden_projects
    response,        \* the response the last finished request brought back
    console,         \* the line get_project_info printed for it
    events,          \* the requests and delays of the current scan_range call
    saved,           \* <<document>> once this pass's save_results wrote one
    exc,             \* the exception raised in this pass ("none" if none)
    exc_at,          \* where it was raised: "try", "after_try" ("none" if none)
    restarted        \* the operator has chosen S at least once

vars == <<pc, start_id, end_id, project_id, scan_results, hidden_projects,
          response, console, events, saved, exc, exc_at, restarted>>

FetchEvent(id) == [e |-> "fetch", id |-> id]

SleepEvent == [e |-> "sleep", id |-> 0]

Init ==
    /\ pc = "banner"
    /\ start_id = 0
    /\ end_id = 0
    /\ project_id = 0
    /\ scan_results = <<>>
    /\ hidden_projects = <<>>
    /\ response = NoResponse
    /\ console = ""
    /\ events = <<>>
    /\ saved = <<>>
    /\ exc = "none"
    /\ exc_at = "none"
    /\ restarted = FALSE

\* An exception e leaves the statement main is executing.
Raise(e) ==
    /\ pc' = Handler(Where(pc), e)
    /\ exc' = e
    /\ exc_at' = Where(pc)

\* Mutant of NewScanner: one scanner, created before main's loop, is used by
\* every pass.
NewScanner_reused ==
    UNCHANGED <<scan_results, hidden_projects, response, console>>

\* BilibiliShowScanner(): a new scanner starts with two empty lists.
NewScanner ==
    /\ scan_results' = <<>>
    /\ hidden_projects' = <<>>
    /\ response' = NoResponse
    /\ console' = ""

\* show_muse_banner() has printed the banner; the start prompt is shown.
ShowBanner ==
    /\ pc = "banner"
    /\ pc' = "ask_start"
    /\ UNCHANGED <<start_id, end_id, project_id, scan_results, hidden_projects,
                   response, console, events, saved, exc, exc_at, restarted>>

\* get_user_input, first loop: one line typed at the start prompt.
EnterStart ==
    /\ pc = "ask_start"
    /\ \E line \in IdLines :
         LET p == ParseInt(line) IN
         IF ValidStart(p)
         THEN start_id' = p.value /\ pc' = "ask_end"
         ELSE UNCHANGED <<start_id, pc>>
    /\ UNCHANGED <<end_id, project_id, scan_results, hidden_projects,
                   response, console, events, saved, exc, exc_at, restarted>>

\* get_user_input, second loop: one line typed at the end prompt.  A valid
\* one returns to main, which creates the scanner and calls scan_range; the
\* loop sends the request for start_id.
EnterEnd ==
    /\ pc = "ask_end"
    /\ \E line \in IdLines :
         LET p == ParseInt(line) IN
         IF ValidEnd(p, start_id)
         THEN /\ end_id' = p.value
              /\ NewScanner
              /\ project_id' = start_id
              /\ events' = <<FetchEvent(start_id)>>
              /\ pc' = "fetching"
         ELSE UNCHANGED <<end_id, scan_results, hidden_projects, response,
                          console, project_id, events, pc>>
    /\ UNCHANGED <<start_id, saved, exc, exc_at, restarted>>

\* The request for project_id ends: get_project_info and scan_project run,
\* scan_range appends the result and either starts the delay or, after the
\* last ID, prints the summary and returns to main's save prompt.
ReceiveResponse ==
    /\ pc = "fetching"
    /\ \E r \in Responses :
         LET sp == scan_project(project_id, r) IN
         /\ response' = r
         /\ console' = console_line(r)
         /\ IF sp.raised
            THEN /\ Raise("AttributeError")
                 /\ UNCHANGED <<scan_results, hidden_projects, events>>
            ELSE /\ hidden_projects' = IF sp.hidden
                                       THEN Append(hidden_projects, sp.result)
                                       ELSE hidden_projects
                 /\ scan_results' = Append(scan_results, sp.result)
                 /\ IF project_id < end_id
                    THEN /\ events' = Append(events, SleepEvent)
                         /\ pc' = "sleeping"
                    ELSE /\ events' = events
                         /\ pc' = "ask_save"
                 /\ UNCHANGED <<exc, exc_at>>
    /\ UNCHANGED <<start_id, end_id, project_id, saved, restarted>>

\* time.sleep(interval) returns: the loop moves to the next ID and sends
\* its request.
WakeUp ==
    /\ pc = "sleeping"
    /\ project_id' = project_id + 1
    /\ events' = Append(events, FetchEvent(project_id + 1))
    /\ pc' = "fetching"
    /\ UNCHANGED <<start_id, end_id, scan_results, hidden_projects, response,
                   console, saved, exc, exc_at, restarted>>

\* save_results: the file is written, or open/json.dump raised and the
\* error was printed.
save_results(written) ==
    saved' = IF written
             THEN <<results_data(scan_results, hidden_projects)>>
             ELSE saved

\* One line typed at the save prompt; a yes answer calls save_results.
AnswerSave ==
    /\ pc = "ask_save"
    /\ \E line \in SaveLines :
         IF Strip(Lower(line)) \in YesChoices
         THEN \E written \in BOOLEAN : save_results(written)
         ELSE UNCHANGED saved
    /\ pc' = "ask_exit"
    /\ UNCHANGED <<start_id, end_id, project_id, scan_results, hidden_projects,
                   response, console, events, exc, exc_at, restarted>>

\* One line typed at the exit prompt: T ends the program, S starts the next
\* pass of main's loop, anything else asks again.
AnswerExit ==
    /\ pc = "ask_exit"
    /\ \E line \in ExitLines :
         LET choice == Upper(Strip(line)) IN
         CASE choice = <<"T">> ->
                /\ pc' = "exited"
                /\ UNCHANGED <<saved, exc, exc_at, restarted>>
           [] choice = <<"S">> ->
                /\ pc' = "banner"
                /\ saved' = <<>>
                /\ exc' = "none"
                /\ exc_at' = "none"
                /\ restarted' = TRUE
           [] OTHER -> UNCHANGED <<pc, saved, exc, exc_at, restarted>>
    /\ UNCHANGED <<start_id, end_id, project_id, scan_results, hidden_projects,
                   response, console, events>>

\* The operator presses Ctrl-C while main is at any of its control points.
Interrupt ==
    /\ pc \in TryPoints \cup {"ask_exit"}
    /\ Raise("KeyboardInterrupt")
    /\ UNCHANGED <<start_id, end_id, project_id, scan_results, hidden_projects,
                   response, console, events, saved, restarted>>

\* The console input ends (EOFError from input) at one of the four prompts.
InputFails ==
    /\ pc \in {"ask_start", "ask_end", "ask_save", "ask_exit"}
    /\ Raise("EOFError")
    /\ UNCHANGED <<start_id, end_id, project_id, scan_results, hidden_projects,
                   response, console, events, saved, restarted>>

Next ==
    \/ ShowBanner
    \/ EnterStart
    \/ EnterEnd
    \/ ReceiveResponse
    \/ WakeUp
    \/ AnswerSave
    \/ AnswerExit
    \/ Interrupt
    \/ InputFails

Spec == Init /\ [][Next]_vars

-----------------------------------------------------------------------------
(* Helpers for the properties.                                              *)

Last(seq) == seq[Len(seq)]

Range(seq) == { seq[k] : k \in 1..Len(seq) }

\* a is b with some entries left out, the others in the same order.
RECURSIVE IsSubsequence(_, _)
IsSubsequence(a, b) ==
    IF a = <<>> THEN TRUE
    ELSE IF b = <<>> THEN FALSE
    ELSE IF Head(a) = Head(b) THEN IsSubsequence(Tail(a), Tail(b))
    ELSE IsSubsequence(a, Tail(b))

IsPrefix(a, b) == Len(a) <= Len(b) /\ a = SubSeq(b, 1, Len(a))

RangeLength == end_id - start_id + 1

\* scan_results holds one outcome per ID of start_id..end_id, in order.
LogCoversRange ==
    /\ Len(scan_results) = RangeLength
    /\ \A k \in 1..Len(scan_results) : scan_results[k].id = start_id + k - 1

\* fetch(a), sleep, fetch(a+1), sleep, ..., fetch(b)
Alternation(a, b) ==
    [k \in 1..(2 * (b - a) + 1) |->
        IF k % 2 = 1 THEN FetchEvent(a + (k - 1) \div 2) ELSE SleepEvent]

\* The scan_range call of this pass is running.
ScanRunning == pc \in {"fetching", "sleeping"}

\* The scan_range call of this pass is over and the operator did not
\* interrupt it: it returned to the save prompt, or scan_project's
\* AttributeError left it.
ScanOver == pc = "ask_save" \/ exc = "AttributeError"

\* The last response was an application error carrying a server message.
ServerError ==
    /\ response.kind = "object"
    /\ response.code \notin {Absent, PyInt(0)}
    /\ response.message # Absent

\* The last response was a well-formed payload without a hide member.
HideMissing ==
    /\ response.kind = "object"
    /\ response.code = PyInt(0)
    /\ response.data.tag = "object"
    /\ response.data.hide = Absent

-----------------------------------------------------------------------------
\* C1: once a scan_range(start, end) call is over, scan_results holds
\* exactly end - start + 1 outcomes with ids start, start+1, ..., end in
\* that order, whatever the fetches brought back.
C1_LogCoversRangeAfterScan == ScanOver => LogCoversRange

-----------------------------------------------------------------------------
\* C2: in every state hidden_projects is a subsequence (same order) of the
\* outcomes of scan_results with status success and hide = 1, and holds no
\* outcome with status error.
C2_HiddenWithinSuccessHide1 ==
    /\ IsSubsequence(hidden_projects,
                     SelectSeq(scan_results,
                               LAMBDA o : o.status = "success" /\ o.hide = PyInt(1)))
    /\ \A k \in 1..Len(hidden_projects) : hidden_projects[k].status # "error"

\* C2 witness: a scan that logged a hidden project, then an error, then a
\* second hidden project.
C2_Witness ==
    /\ Len(hidden_projects) = 2
    /\ hidden_projects[1].id < hidden_projects[2].id
    /\ \E k \in 1..Len(scan_results) : scan_results[k].status = "error"

-----------------------------------------------------------------------------
\* C3 (as claimed): after an application error with a server message the
\* outcome has status error, its error field is the server's message, and
\* it differs from the error field a transport failure produces.
C3_ErrorIsServerMessage ==
    ServerError =>
        /\ scan_results # <<>>
        /\ Last(scan_results).status = "error"
        /\ Last(scan_results).error = response.message
        /\ Last(scan_results).error #
              scan_project(project_id, Failure("transport")).result.error

\* C3 (amended): after an application error with a server message the
\* outcome has status error and the fixed error text, the same text a
\* transport failure produces; the server's message is only printed.
C3_ErrorIsGenericText ==
    ServerError =>
        /\ scan_results # <<>>
        /\ Last(scan_results).status = "error"
        /\ Last(scan_results).error = PyStr("cannot get project info")
        /\ Last(scan_results).error =
              scan_project(project_id, Failure("transport")).result.error
        /\ console = response.message.s

\* C3 witness: code 10002 with message "not found" was received.
C3_Witness ==
    /\ ServerError
    /\ response.code = PyInt(10002)
    /\ response.message = PyStr("not found")
    /\ Last(scan_results).status = "error"

-----------------------------------------------------------------------------
\* C4: whatever a request brings back, scan_project returns an outcome for
\* that ID with status success or error and raises nothing.
C4_ScanProjectNeverFails ==
    response # NoResponse =>
        /\ exc # "AttributeError"
        /\ scan_results # <<>>
        /\ Last(scan_results).status \in {"success", "error"}

-----------------------------------------------------------------------------
\* C5: a payload without a hide member yields an outcome with hide = None
\* (not 0) and status success that is not in hidden_projects; every entry
\* of hidden_projects has hide = 1.
C5_AbsentHideIsNotHidden ==
    /\ HideMissing =>
         /\ scan_results # <<>>
         /\ Last(scan_results).hide = PyNone
         /\ Last(scan_results).status = "success"
         /\ Last(scan_results) \notin Range(hidden_projects)
    /\ \A k \in 1..Len(hidden_projects) : hidden_projects[k].hide = PyInt(1)
    /\ \A k \in 1..Len(scan_results) :
         scan_results[k].hide # PyInt(1) =>
            scan_results[k] \notin Range(hidden_projects)

\* C5 witness: the last payload had no hide member, an earlier one had
\* hide = 1.
C5_Witness ==
    /\ HideMissing
    /\ Len(scan_results) >= 2
    /\ Len(hidden_projects) = 1

-----------------------------------------------------------------------------
\* C6: while scan_range runs its events are a prefix of fetch(start),
\* sleep, ..., fetch(end), a request is sent only when every earlier ID has
\* its outcome, and once the call is over the events are the whole
\* alternation: one fetch per ID and end - start sleeps.
C6_FetchSleepAlternation ==
    /\ ScanRunning \/ ScanOver =>
         IsPrefix(events, Alternation(start_id, end_id))
    /\ pc = "fetching" => Len(events) = 2 * Len(scan_results) + 1
    /\ pc = "sleeping" => Len(events) = 2 * Len(scan_results)
    /\ ScanOver => events = Alternation(start_id, end_id)

-----------------------------------------------------------------------------
\* C7 (as claimed): an exception raised anywhere in main's loop, the exit
\* prompt included, brings control to the exit prompt, and the process
\* never ends other than by the operator's T.
C7_EveryFailureReachesExitPrompt ==
    /\ exc # "none" => pc \in {"ask_exit", "exited"}
    /\ pc # "crashed"

\* C7 (amended): an exception raised inside the try block (banner, range
\* prompts, scan, save prompt, save) brings control to the exit prompt; the
\* process ends abnormally only by an exception raised at the exit prompt
\* itself, which is outside the try block.
C7_FailureInTryReachesExitPrompt ==
    /\ (exc # "none" /\ exc_at = "try") => pc \in {"ask_exit", "exited"}
    /\ pc = "crashed" => (exc # "none" /\ exc_at = "after_try")

\* C7 witness: Ctrl-C during a scan, control at the exit prompt.
C7_Witness ==
    /\ pc = "ask_exit"
    /\ exc = "KeyboardInterrupt"
    /\ exc_at = "try"
    /\ scan_results # <<>>
    /\ Len(scan_results) < RangeLength

-----------------------------------------------------------------------------
\* C8: the document save_results wrote, read back, has total_scanned =
\* number of all_results, hidden_count = number of hidden_projects, one
\* outcome per scanned ID in scan order, and every outcome's id, hide, name,
\* status and error as the scanner holds them.
C8_SavedDocumentRoundTrips ==
    saved # <<>> =>
        LET back == LoadDocument(saved[1]) IN
        /\ back.total_scanned = Len(back.all_results)
        /\ back.hidden_count = Len(back.hidden_projects)
        /\ back.total_scanned = Len(scan_results)
        /\ back.hidden_count = Len(hidden_projects)
        /\ back.all_results = scan_results
        /\ back.hidden_projects = hidden_projects
        /\ \A k \in 1..Len(back.all_results) :
              back.all_results[k].id = start_id + k - 1

\* C8 witness: a saved session with an error outcome, a hidden project and
\* an outcome whose hide is None.
C8_Witness ==
    /\ saved # <<>>
    /\ Len(hidden_projects) >= 1
    /\ \E k \in 1..Len(scan_results) : scan_results[k].status = "error"
    /\ \E k \in 1..Len(scan_results) :
          scan_results[k].status = "success" /\ scan_results[k].hide = PyNone

-----------------------------------------------------------------------------
\* C9: get_user_input hands over a start ID > 0 and an end ID >= start ID,
\* so scan_range only ever runs with 0 < start <= end.
C9_ScanRangeArgumentsValid ==
    /\ pc = "ask_end" => start_id > 0
    /\ (ScanRunning \/ pc = "ask_save") => (start_id > 0 /\ end_id >= start_id)
    /\ events # <<>> => events[1].id > 0

\* C9 witness: a scan of a range of more than one ID is running.
C9_Witness ==
    /\ pc = "sleeping"
    /\ start_id = 2
    /\ end_id > start_id

-----------------------------------------------------------------------------
\* C10: a document written by save_results holds exactly the outcomes of
\* the range entered in this pass of main's loop, end - start + 1 of them
\* with ids start..end, its hidden projects are among them, and the scan it
\* persists was not interrupted.
C10_SavedSessionIsThisPass ==
    saved # <<>> =>
        LET back == LoadDocument(saved[1]) IN
        /\ Len(back.all_results) = RangeLength
        /\ \A k \in 1..Len(back.all_results) :
              back.all_results[k].id = start_id + k - 1
        /\ Range(back.hidden_projects) \subseteq Range(back.all_results)
        /\ events = Alternation(start_id, end_id)
        /\ exc_at # "try"

\* C10 witness: a save in a pass that follows a restart, of a range that
\* starts above the lowest ID.
C10_Witness ==
    /\ saved # <<>>
    /\ restarted
    /\ start_id > 1
    /\ Len(hidden_projects) >= 1

====
